---- MODULE Spec2Model ----
(***************************************************************************)
(* A model of str.db: the sorted Collection (collection.ts), the           *)
(* connection and its save routine (database.ts) and the file adapter.     *)
(*                                                                         *)
(* Records are functions from field names to values.  An array of the      *)
(* program is a sequence; the code's 0-based index i is element i + 1.     *)
(* An array object is named by an id: the root object `data` maps a        *)
(* collection name to the id of its array, and a Collection holds the id   *)
(* of its `elements`, so that aliasing is what the code makes it.          *)
(***************************************************************************)
EXTENDS Integers, Sequences, FiniteSets, TLC

\* ---------------------------------------------------------------- bounds

\* Key values are 1 .. MaxKey.
MaxKey == 3
\* Saves that may be pending (timer running or write in flight) at once.
MaxPending == 2
\* Calls issued by a caller that does not await them.
MaxCalls == 2

Keys == 1 .. MaxKey
\* Longest array the model lets insert build (an array that is not sorted
\* can take a key twice).
MaxLen == MaxKey
Vals == {"a", "b"}
Names == {"users", "posts"}
NameOrder == <<"users", "posts">>
FieldOrder == <<"id", "name">>
\* The collections the program creates: database.ts factory calls.  "u" and
\* "u2" are two factory calls for the name "users", "p" is one for "posts".
Colls == {"u", "u2", "p"}
Delays == {0, 1}
\* A DatabaseFile completes its writes in the order they were started, or
\* in any order (fs.writeFile called again before the last call settled).
Adapters == {"ordered", "unordered"}

\* The values a collection's records take in the model.
KeysOf(name) == IF name = "users" THEN Keys ELSE {1}

\* Full records E of a collection, and the partial records given to
\* update / remove / find.
ValsOf(name) == IF name = "users" THEN Vals ELSE {"a"}
Elements(name) ==
  {[id |-> k, name |-> v] : k \in KeysOf(name), v \in ValsOf(name)}
KeyOnly(name) == {[id |-> k] : k \in KeysOf(name)}
Partials(name) == Elements(name) \cup KeyOnly(name)
\* Arguments that do not have the key field.
KeyLess(name) == {[name |-> v] : v \in ValsOf(name)}

\* ---------------------------------------------------------- pure helpers

\* Array.prototype.splice(index, 0, el) and splice(index, 1), index 0-based.
SpliceIn(s, index, el) ==
  SubSeq(s, 1, index) \o <<el>> \o SubSeq(s, index + 1, Len(s))

SpliceOut(s, index) ==
  SubSeq(s, 1, index) \o SubSeq(s, index + 2, Len(s))

\* Object.assign(target, src): every field of src overwrites target's.
ObjectAssign(target, src) ==
  [f \in (DOMAIN target) \cup (DOMAIN src) |->
     IF f \in DOMAIN src THEN src[f] ELSE target[f]]

\* A comparator that reports a tie for keys that are not equal: it compares
\* the halves of the keys.
coarseComparator(a, b, pk) ==
  IF pk \in DOMAIN a /\ pk \in DOMAIN b
    THEN IF a[pk] \div 2 < b[pk] \div 2 THEN 0 - 1
         ELSE IF a[pk] \div 2 > b[pk] \div 2 THEN 1
         ELSE 0
    ELSE 0

\* Collection.defaultComparator with this.primaryKey = pk.  a[pk] of a
\* missing field is undefined, and undefined < x, undefined > x are false.
defaultComparator(a, b, pk) ==
  IF pk \in DOMAIN a /\ pk \in DOMAIN b
    THEN IF a[pk] < b[pk] THEN 0 - 1
         ELSE IF a[pk] > b[pk] THEN 1
         ELSE 0
    ELSE 0

\* Array.prototype.sort(comparator): a stable sort (ECMAScript 2019).
RECURSIVE SortInsert(_, _, _)
SortInsert(sorted, el, pk) ==
  IF sorted = <<>> THEN <<el>>
  ELSE IF defaultComparator(sorted[Len(sorted)], el, pk) <= 0
    THEN Append(sorted, el)
    ELSE Append(SortInsert(SubSeq(sorted, 1, Len(sorted) - 1), el, pk),
                sorted[Len(sorted)])

RECURSIVE ArraySort(_, _)
ArraySort(s, pk) ==
  IF s = <<>> THEN <<>>
  ELSE SortInsert(ArraySort(SubSeq(s, 1, Len(s) - 1), pk), s[Len(s)], pk)

\* The constructor reads this.primaryKey inside the comparator before it has
\* assigned it (line 83 runs before line 84): the property key is
\* `undefined`, a field no record has.
UnsetKey == "undefined"

\* Collection.constructor: this.elements = options.elements.sort(comparator)
ConstructorSort(elements, primaryKey) == ArraySort(elements, UnsetKey)

\* A search that, finding nothing, reports the front of the array as the
\* place to insert.
RECURSIVE BinarySearchFront(_, _, _, _, _)
BinarySearchFront(elems, el, pk, left, right) ==
  IF left <= right
    THEN LET mid == (left + right) \div 2
             cmp == defaultComparator(el, elems[mid + 1], pk)
         IN  IF cmp < 0 THEN BinarySearchFront(elems, el, pk, left, mid - 1)
             ELSE IF cmp > 0 THEN BinarySearchFront(elems, el, pk, mid + 1, right)
             ELSE [index |-> mid, found |-> TRUE]
    ELSE [index |-> 0, found |-> FALSE]

\* Collection.searchIndex: [index (0-based), found].
RECURSIVE BinarySearch(_, _, _, _, _)
BinarySearch(elems, el, pk, left, right) ==
  IF left <= right
    THEN LET mid == (left + right) \div 2
             cmp == defaultComparator(el, elems[mid + 1], pk)
         IN  IF cmp < 0 THEN BinarySearch(elems, el, pk, left, mid - 1)
             ELSE IF cmp > 0 THEN BinarySearch(elems, el, pk, mid + 1, right)
             ELSE [index |-> mid, found |-> TRUE]
    ELSE [index |-> left, found |-> FALSE]

\* A key check that lets every argument pass.
hasKeyAlways(el, pk) == TRUE

\* Reflect.has(el, this.primaryKey), lines 141 and 184.
hasKey(el, pk) == pk \in DOMAIN el

\* A search that starts at index 1 and never looks at the first record.
searchIndexSkipFirst(elems, el, pk) ==
  BinarySearch(elems, el, pk, 1, Len(elems) - 1)

searchIndex(elems, el, pk) == BinarySearch(elems, el, pk, 0, Len(elems) - 1)

\* JSON.stringify of one record / one array / the root object, and
\* JSON.parse back.  The text is modelled as the sequence of its members.
StringifyRecord(r) ==
  LET present == SelectSeq(FieldOrder, LAMBDA f : f \in DOMAIN r)
  IN  [i \in 1 .. Len(present) |-> <<present[i], r[present[i]]>>]

StringifyArray(s) == [i \in 1 .. Len(s) |-> StringifyRecord(s[i])]

ParseRecord(t) ==
  [f \in {t[i][1] : i \in 1 .. Len(t)} |->
     LET i == CHOOSE j \in 1 .. Len(t) : t[j][1] = f IN t[i][2]]

ParseArray(t) == [i \in 1 .. Len(t) |-> ParseRecord(t[i])]


\* JSON.stringify(data): the root object `root` maps names to arrays.
Stringify(root) ==
  LET present == SelectSeq(NameOrder, LAMBDA n : n \in DOMAIN root)
  IN  [i \in 1 .. Len(present) |->
         <<present[i], StringifyArray(root[present[i]])>>]

\* JSON.parse(text)
Parse(text) ==
  [n \in {text[i][1] : i \in 1 .. Len(text)} |->
     LET i == CHOOSE j \in 1 .. Len(text) : text[j][1] = n
     IN  ParseArray(text[i][2])]

\* Condition<E> arguments of removeAll: none, r => r.id < k, r => r.name = v.
NoCond == [kind |-> "none", k |-> 0, v |-> ""]
IdLt(k) == [kind |-> "idLt", k |-> k, v |-> ""]
NameEq(v) == [kind |-> "nameEq", k |-> 0, v |-> v]
Conds == {NoCond, NameEq("a")} \cup {IdLt(k) : k \in Keys}

Matches(cond, el) ==
  CASE cond.kind = "none" -> TRUE
    [] cond.kind = "idLt" -> el.id < cond.k
    [] OTHER -> el.name = cond.v

\* ------------------------------------------------------------------ state

VARIABLES
  heap,    \* array id -> the array's records
  data,    \* the root object of connect: name -> array id, or a value
           \* that is not an array (NonArrays)
  delay,   \* the connection's delay option
  adapter, \* how the connection's DatabaseFile orders its writes
  file,    \* the database file: [exists, text]
  saves,   \* save() calls not yet finished, oldest first
  burst,   \* history: the saves started since no save was pending:
           \* "none" (no save yet), "single" (one), "overlap" (several)
  last,    \* the last call and what it returned: [op, ret, threw]
  pc,      \* the caller's program: the calls it has issued (Spec, SpecReadme),
           \* the key of the record it follows (SpecFollow), 0 otherwise
  reader,  \* how the connection's DatabaseFile reads: "sync" or "async"
  elements, \* Collection.elements: each collection made so far -> array id
  io       \* history, since no save was pending: [hooks, rejected, unhandled],
           \* the onSaved() calls, the rejections handed to the caller of a
           \* call, and the rejections of promises that nobody holds

vars ==
  <<heap, data, delay, adapter, file, saves, burst, last, pc, reader, elements, io>>

\* Collection fields set by the factory (database.ts 113-121).
nameOf(c) == IF c \in {"u", "u2"} THEN "users" ELSE "posts"
primaryKeyOf(c) == "id"
\* A factory that hands the second users instance an array of its own
\* instead of the one stored under its name.
elementsOfOther(c) == IF c = "u2" THEN "posts" ELSE elements[c]

\* this.elements of collection c.
elementsOf(c) == elements[c]

NoEl == [none |-> TRUE]
NoCall == [op |-> "none", ret |-> FALSE, threw |-> FALSE]
Call(op, ret) == [op |-> op, ret |-> ret, threw |-> FALSE]
\* The call threw a TypeError (an async method: its promise rejected with
\* one); there is no return value, and ret is the empty value of the kind
\* that op returns.
Throw(op) == [op |-> op, ret |-> IF op = "find" THEN NoEl ELSE FALSE, threw |-> TRUE]

NoIo == [hooks |-> 0, rejected |-> 0, unhandled |-> 0]

\* The root object as a value: each name with the records of its array.
Root(d, h) == [n \in DOMAIN d |-> h[d[n]]]

\* What a reader of the file gets: JSON.parse(databaseFile.read()).
FileRoot == Parse(file.text)

\* The records of collection c, in iteration order (Symbol.iterator).
Iterate(c) == heap[elementsOf(c)]

Ids(s) == [i \in 1 .. Len(s) |-> s[i].id]

\* Collection.find: the record, or NoEl for undefined.
find(c, el) ==
  LET r == searchIndex(Iterate(c), el, primaryKeyOf(c))
  IN  IF r.found THEN Iterate(c)[r.index + 1] ELSE NoEl

\* ----------------------------------------------------------- construction

\* Arrays with pairwise distinct keys, in any order.
DistinctArrays(name) ==
  {s \in UNION {[1 .. n -> Elements(name)] : n \in 0 .. Cardinality(KeysOf(name))} :
     \A i, j \in 1 .. Len(s) : i # j => s[i].id # s[j].id}

IsSorted(s) == \A i \in 1 .. Len(s) - 1 : s[i].id < s[i + 1].id

\* Root objects a caller passes as `init` or the file holds.
InitObjects ==
  {[n \in {} |-> <<>>]}
    \cup {[n \in {"users"} |-> u] : u \in DistinctArrays("users")}
    \cup {[n \in Names |-> IF n = "users" THEN u ELSE p] :
            u \in DistinctArrays("users"), p \in DistinctArrays("posts")}

\* connect (database.ts 97-102) and the factory calls for Colls
\* (113-121, collection.ts 81-87).
Connect(init, fromFile, d, a) ==
  /\ file = IF fromFile THEN [exists |-> TRUE, text |-> Stringify(init)]
                        ELSE [exists |-> FALSE, text |-> <<>>]
  /\ LET loaded == IF file.exists THEN Parse(file.text) ELSE init
     IN  /\ data = [n \in Names |-> n]
         /\ heap = [n \in Names |->
                      IF n \in DOMAIN loaded
                        THEN ConstructorSort(loaded[n], "id")
                        ELSE <<>>]
  /\ delay = d
  /\ adapter = a
  /\ reader = "sync"
  /\ elements = [c \in Colls |-> data[nameOf(c)]]
  /\ saves = <<>>
  /\ burst = "none"
  /\ io = NoIo
  /\ last = NoCall

\* Any initial object, its arrays in any order.
Init ==
  /\ \E init \in InitObjects, fromFile \in BOOLEAN, d \in Delays, a \in Adapters :
       Connect(init, fromFile, d, a)
  /\ pc = 0

\* Initial objects whose arrays are already sorted by key.
InitSorted ==
  /\ \E init \in InitObjects, fromFile \in BOOLEAN, d \in Delays, a \in Adapters :
       /\ \A n \in DOMAIN init : IsSorted(init[n])
       /\ Connect(init, fromFile, d, a)
  /\ pc = 0

\* ---------------------------------------------------------------- saving

\* A pending save() call: waiting for its timer or for its write; `via` is
\* the method whose caller holds the promise ("call": insert, update or
\* remove called directly; "removeAll": a remove called by removeAll, whose
\* promise is dropped).
TimerSave(c, via) ==
  [phase |-> "timer", name |-> nameOf(c), elements |-> elementsOf(c),
   text |-> <<>>, via |-> via]

WriteSave(c, text, via) ==
  [phase |-> "write", name |-> nameOf(c), elements |-> elementsOf(c),
   text |-> text, via |-> via]

\* The history variable, when k saves are started.
Started(k) ==
  IF k = 0 THEN burst
  ELSE IF saves = <<>> /\ k = 1 THEN "single"
  ELSE "overlap"

\* The history counters, when k saves are started.
Counted(k) == IF k > 0 /\ saves = <<>> THEN NoIo ELSE io

\* A save that writes the saved collection alone, not the root object.
saveOnlyNamed(c) ==
  /\ IF delay > 0
       THEN /\ saves' = Append(saves, TimerSave(c, "call"))
            /\ data' = data
       ELSE /\ data' = [data EXCEPT ![nameOf(c)] = elementsOf(c)]
            /\ saves' = Append(saves,
                 WriteSave(c, Stringify([n \in {nameOf(c)} |-> heap'[elementsOf(c)]]),
                           "call"))
  /\ burst' = Started(1)
  /\ io' = Counted(1)

\* A save that does nothing while another save is pending.
saveUnlessPending(c) ==
  IF saves # <<>>
    THEN UNCHANGED <<saves, data, burst, io>>
    ELSE /\ IF delay > 0
              THEN /\ saves' = Append(saves, TimerSave(c, "call"))
                   /\ data' = data
              ELSE /\ data' = [data EXCEPT ![nameOf(c)] = elementsOf(c)]
                   /\ saves' = Append(saves,
                        WriteSave(c, Stringify(Root(data', heap')), "call"))
         /\ burst' = Started(1)
         /\ io' = Counted(1)

\* save(name, elements) up to its first suspension (database.ts 104-108),
\* called by startSaving after the array was changed (heap' is the array).
save(c) ==
  /\ IF delay > 0
       THEN /\ saves' = Append(saves, TimerSave(c, "call"))
            /\ data' = data
       ELSE /\ data' = [data EXCEPT ![nameOf(c)] = elementsOf(c)]
            /\ saves' = Append(saves,
                 WriteSave(c, Stringify(Root(data', heap')), "call"))
  /\ burst' = Started(1)
  /\ io' = Counted(1)

\* wait(delay) is over for the oldest waiting save (timers of one delay
\* fire in the order they were set): lines 107-108.
FirstTimer == CHOOSE i \in 1 .. Len(saves) :
                /\ saves[i].phase = "timer"
                /\ \A j \in 1 .. i - 1 : saves[j].phase # "timer"

\* A debounced saver: a save whose delay ends while a later save is waiting
\* is dropped and writes nothing.
TimerFireDebounced ==
  /\ \E i \in 1 .. Len(saves) : saves[i].phase = "timer"
  /\ LET i == FirstTimer
         s == saves[i]
     IN  IF \E j \in i + 1 .. Len(saves) : saves[j].phase = "timer"
           THEN /\ saves' = SpliceOut(saves, i - 1)
                /\ data' = data
           ELSE /\ data' = [data EXCEPT ![s.name] = s.elements]
                /\ saves' = [saves EXCEPT ![i] =
                               [s EXCEPT !.phase = "write",
                                         !.text = Stringify(Root(data', heap))]]
  /\ UNCHANGED <<heap, delay, adapter, file, burst, last, pc, reader, elements, io>>

TimerFire ==
  /\ \E i \in 1 .. Len(saves) : saves[i].phase = "timer"
  /\ LET i == FirstTimer
         s == saves[i]
     IN  /\ data' = [data EXCEPT ![s.name] = s.elements]
         /\ saves' = [saves EXCEPT ![i] =
                        [s EXCEPT !.phase = "write",
                                  !.text = Stringify(Root(data', heap))]]
  /\ UNCHANGED <<heap, delay, adapter, file, burst, last, pc, reader, elements, io>>

\* databaseFile.write(content) of save i completes (then onSaved()).
WriteComplete(i) ==
  /\ saves[i].phase = "write"
  /\ adapter = "ordered" => \A j \in 1 .. i - 1 : saves[j].phase # "write"
  /\ file' = [exists |-> TRUE, text |-> saves[i].text]
  /\ saves' = SpliceOut(saves, i - 1)
  /\ io' = [io EXCEPT !.hooks = @ + 1]
  /\ UNCHANGED <<heap, data, delay, adapter, burst, last, pc, reader, elements>>

\* databaseFile.write(content) of save i fails: the promise of save rejects
\* before onSaved() (line 110) is reached, and with it the promise of
\* startSaving and of the insert, update or remove that awaited it.  The
\* caller of that method holds its promise; removeAll dropped the promises
\* of the removes it called (lines 127 and 130).
WriteFail(i) ==
  /\ saves[i].phase = "write"
  /\ adapter = "ordered" => \A j \in 1 .. i - 1 : saves[j].phase # "write"
  /\ saves' = SpliceOut(saves, i - 1)
  /\ io' = IF saves[i].via = "call"
             THEN [io EXCEPT !.rejected = @ + 1]
             ELSE [io EXCEPT !.unhandled = @ + 1]
  /\ UNCHANGED <<heap, data, delay, adapter, file, burst, last, pc, reader, elements>>

\* ------------------------------------------------------------ operations

\* An insert that starts a save also when it finds the key stored.
insertSaving(c, el) ==
  LET elems == Iterate(c)
      r == searchIndex(elems, el, primaryKeyOf(c))
  IN  /\ IF ~hasKey(el, primaryKeyOf(c))
           THEN /\ last' = Throw("insert")
                /\ UNCHANGED <<heap, data, saves, burst, io>>
           ELSE IF r.found
           THEN /\ Len(saves) < MaxPending
                /\ heap' = heap
                /\ save(c)
                /\ last' = Call("insert", FALSE)
           ELSE /\ Len(elems) < MaxLen
                /\ Len(saves) < MaxPending
                /\ heap' = [heap EXCEPT ![elementsOf(c)] =
                              SpliceIn(elems, r.index, el)]
                /\ save(c)
                /\ last' = Call("insert", TRUE)
      /\ UNCHANGED <<delay, adapter, file, reader, elements>>

\* Collection.insert (167-175)
insert(c, el) ==
  LET elems == Iterate(c)
      r == searchIndex(elems, el, primaryKeyOf(c))
  IN  /\ IF ~hasKey(el, primaryKeyOf(c))
           THEN /\ last' = Throw("insert")
                /\ UNCHANGED <<heap, data, saves, burst, io>>
           ELSE IF r.found
           THEN /\ last' = Call("insert", FALSE)
                /\ UNCHANGED <<heap, data, saves, burst, io>>
           ELSE /\ Len(elems) < MaxLen
                /\ Len(saves) < MaxPending
                /\ heap' = [heap EXCEPT ![elementsOf(c)] =
                              SpliceIn(elems, r.index, el)]
                /\ save(c)
                /\ last' = Call("insert", TRUE)
      /\ UNCHANGED <<delay, adapter, file, reader, elements>>

\* Collection.update (183-194)
update(c, el) ==
  LET elems == Iterate(c)
      r == searchIndex(elems, el, primaryKeyOf(c))
  IN  /\ IF ~hasKey(el, primaryKeyOf(c))
           THEN /\ last' = Throw("update")
                /\ UNCHANGED <<heap, data, saves, burst, io>>
           ELSE IF ~r.found
           THEN /\ last' = Call("update", FALSE)
                /\ UNCHANGED <<heap, data, saves, burst, io>>
           ELSE /\ Len(saves) < MaxPending
                /\ heap' = [heap EXCEPT ![elementsOf(c)] =
                              [elems EXCEPT ![r.index + 1] =
                                 ObjectAssign(elems[r.index + 1], el)]]
                /\ save(c)
                /\ last' = Call("update", TRUE)
      /\ UNCHANGED <<delay, adapter, file, reader, elements>>

\* Collection.remove (202-211)
remove(c, el) ==
  LET elems == Iterate(c)
      r == searchIndex(elems, el, primaryKeyOf(c))
  IN  /\ IF ~hasKey(el, primaryKeyOf(c))
           THEN /\ last' = Throw("remove")
                /\ UNCHANGED <<heap, data, saves, burst, io>>
           ELSE IF ~r.found
           THEN /\ last' = Call("remove", FALSE)
                /\ UNCHANGED <<heap, data, saves, burst, io>>
           ELSE /\ Len(saves) < MaxPending
                /\ heap' = [heap EXCEPT ![elementsOf(c)] = SpliceOut(elems, r.index)]
                /\ save(c)
                /\ last' = Call("remove", TRUE)
      /\ UNCHANGED <<delay, adapter, file, reader, elements>>

\* The methods that change nothing: find (218-222), has with a partial
\* record or with a condition (213-216), findAll (104-114) and the iterator
\* (157-159).  Each is the call and what it returns.
Reads == <<delay, adapter, file, reader, elements, heap, data, saves, burst, io>>

findCall(c, el) ==
  /\ last' = IF hasKey(el, primaryKeyOf(c)) THEN Call("find", find(c, el))
                                            ELSE Throw("find")
  /\ UNCHANGED Reads

hasCall(c, el) ==
  /\ last' = IF hasKey(el, primaryKeyOf(c)) THEN Call("has", find(c, el) # NoEl)
                                            ELSE Throw("has")
  /\ UNCHANGED Reads

hasWhere(c, cond) ==
  /\ last' = Call("has", \E i \in 1 .. Len(Iterate(c)) : Matches(cond, Iterate(c)[i]))
  /\ UNCHANGED Reads

findAll(c, cond) ==
  /\ last' = Call("findAll", SelectSeq(Iterate(c), LAMBDA r : Matches(cond, r)))
  /\ UNCHANGED Reads

iterate(c) ==
  /\ last' = Call("iterate", Iterate(c))
  /\ UNCHANGED Reads

\* Collection.removeAll (121-135).  `for (const el of this)` walks the live
\* array by index i while this.remove(el) splices it; length counts the
\* records that matched, snaps holds the array after each splice (each one
\* starts a save).
RECURSIVE RemoveAllLoop(_, _, _, _, _, _)
RemoveAllLoop(elems, i, cond, pk, length, snaps) ==
  IF i >= Len(elems)
    THEN [elems |-> elems, length |-> length, snaps |-> snaps]
    ELSE LET el == elems[i + 1]
             r == searchIndex(elems, el, pk)
             after == IF r.found THEN SpliceOut(elems, r.index) ELSE elems
         IN  IF Matches(cond, el)
               THEN RemoveAllLoop(after, i + 1, cond, pk, length + 1,
                                  IF r.found THEN Append(snaps, after) ELSE snaps)
               ELSE RemoveAllLoop(elems, i + 1, cond, pk, length, snaps)

\* The saves started by the removes of one removeAll call: each save call
\* runs to its first suspension before the next remove.
RemoveAllSaves(c, snaps) ==
  [j \in 1 .. Len(snaps) |->
     IF delay > 0
       THEN TimerSave(c, "removeAll")
       ELSE WriteSave(c, Stringify(Root([data EXCEPT ![nameOf(c)] = elementsOf(c)],
                                        [heap EXCEPT ![elementsOf(c)] = snaps[j]])),
                      "removeAll")]

removeAll(c, cond) ==
  LET res == RemoveAllLoop(Iterate(c), 0, cond, primaryKeyOf(c), 0, <<>>)
  IN  /\ Len(saves) + Len(res.snaps) <= MaxPending
      /\ heap' = [heap EXCEPT ![elementsOf(c)] = res.elems]
      /\ saves' = saves \o RemoveAllSaves(c, res.snaps)
      /\ data' = IF delay > 0 \/ res.snaps = <<>>
                   THEN data
                   ELSE [data EXCEPT ![nameOf(c)] = elementsOf(c)]
      /\ burst' = Started(Len(res.snaps))
      /\ io' = Counted(Len(res.snaps))
      /\ last' = Call("removeAll", res.length)
      /\ UNCHANGED <<delay, adapter, file, reader, elements>>

\* ----------------------------------------------------------- specifications

\* No save() call is pending: every mutation so far has been awaited.
Quiescent == saves = <<>>

AnyInsert == \E c \in Colls : \E el \in Elements(nameOf(c)) : insert(c, el)
AnyUpdate == \E c \in Colls : \E el \in Partials(nameOf(c)) : update(c, el)
AnyRemove == \E c \in Colls : \E el \in KeyOnly(nameOf(c)) : remove(c, el)
AnyRemoveAll == \E c \in Colls, cond \in Conds : removeAll(c, cond)
Complete == \E i \in 1 .. Len(saves) : WriteComplete(i)

\* A caller that awaits each call before it starts the next.
AwaitedInsert == Quiescent /\ AnyInsert /\ pc' = pc
AwaitedUpdate == Quiescent /\ AnyUpdate /\ pc' = pc
AwaitedRemove == Quiescent /\ AnyRemove /\ pc' = pc
AwaitedRemoveAll == Quiescent /\ AnyRemoveAll /\ pc' = pc

NextAwaited ==
  \/ AwaitedInsert
  \/ AwaitedUpdate
  \/ AwaitedRemove
  \/ AwaitedRemoveAll
  \/ TimerFire
  \/ Complete

SpecAwaited == Init /\ [][NextAwaited]_vars

SpecSorted == InitSorted /\ [][NextAwaited]_vars

\* A caller that issues up to MaxCalls calls whenever it likes, awaiting
\* none of them.
Seeds ==
  {[n \in {} |-> <<>>],
   [n \in {"users"} |-> [k \in Keys |-> [id |-> k, name |-> "a"]]],
   [n \in Names |-> IF n = "users" THEN <<[id |-> 2, name |-> "a"]>>
                                   ELSE <<[id |-> 1, name |-> "a"]>>]}

InitSeed ==
  /\ \E init \in Seeds, fromFile \in BOOLEAN, d \in Delays, a \in Adapters :
       Connect(init, fromFile, d, a)
  /\ pc = 0

Insert == pc < MaxCalls /\ AnyInsert /\ pc' = pc + 1
Update == pc < MaxCalls /\ AnyUpdate /\ pc' = pc + 1
Remove == pc < MaxCalls /\ AnyRemove /\ pc' = pc + 1
RemoveAll == pc < MaxCalls /\ AnyRemoveAll /\ pc' = pc + 1

Next ==
  \/ Insert
  \/ Update
  \/ Remove
  \/ RemoveAll
  \/ TimerFire
  \/ Complete

Spec == InitSeed /\ [][Next]_vars

\* The usage example of the README (78-105): on the seed with ids 1, 2, 3,
\* insert({id: 2}), remove({id: 1}), removeAll(u => u.id < 3), none awaited.
ReadmeSeeds ==
  {[n \in {"users"} |-> <<[id |-> 1, name |-> v1], [id |-> 2, name |-> v2],
                          [id |-> 3, name |-> v3]>>] : v1, v2, v3 \in Vals}

InitReadme ==
  /\ \E init \in ReadmeSeeds, fromFile \in BOOLEAN, d \in Delays, a \in Adapters :
       Connect(init, fromFile, d, a)
  /\ pc = 0

ReadmeInsert ==
  /\ pc = 0
  /\ \E v \in Vals : insert("u", [id |-> 2, name |-> v])
  /\ pc' = 1

ReadmeRemove == pc = 1 /\ remove("u", [id |-> 1]) /\ pc' = 2

ReadmeRemoveAll == pc = 2 /\ removeAll("u", IdLt(3)) /\ pc' = 3

NextReadme ==
  \/ ReadmeInsert
  \/ ReadmeRemove
  \/ ReadmeRemoveAll
  \/ TimerFire
  \/ Complete

SpecReadme == InitReadme /\ [][NextReadme]_vars

\* A caller that inserts a record and then issues awaited calls that neither
\* remove its key nor change it.  Here pc is the key of the record the
\* caller follows (0: none yet).
FollowInsert ==
  /\ pc = 0
  /\ Quiescent
  /\ \E el \in Elements("users") :
       /\ insert("u", el)
       /\ pc' = IF last'.ret THEN el.id ELSE 0

FollowOtherInsert ==
  pc # 0 /\ Quiescent /\ (\E el \in Elements("users") : insert("u", el)) /\ pc' = pc

FollowUpdate ==
  pc # 0 /\ Quiescent /\ (\E el \in Partials("users") : update("u", el)) /\ pc' = pc

FollowRemove ==
  /\ pc # 0
  /\ Quiescent
  /\ \E el \in KeyOnly("users") : el.id # pc /\ remove("u", el)
  /\ pc' = pc

NextFollow ==
  \/ FollowInsert
  \/ FollowOtherInsert
  \/ FollowUpdate
  \/ FollowRemove
  \/ TimerFire
  \/ Complete

SpecFollow == Init /\ [][NextFollow]_vars

\* A caller that awaits each call and also passes arguments without the key
\* field and calls the methods that only read.
Args(name) == Partials(name) \cup KeyLess(name)

CallInsert ==
  /\ Quiescent
  /\ \E c \in Colls : \E el \in Elements(nameOf(c)) \cup KeyLess(nameOf(c)) :
       insert(c, el)
  /\ pc' = pc

CallUpdate ==
  Quiescent /\ (\E c \in Colls : \E el \in Args(nameOf(c)) : update(c, el)) /\ pc' = pc

CallRemove ==
  Quiescent /\ (\E c \in Colls : \E el \in Args(nameOf(c)) : remove(c, el)) /\ pc' = pc

CallFind ==
  Quiescent /\ (\E c \in Colls : \E el \in Args(nameOf(c)) : findCall(c, el)) /\ pc' = pc

CallHas ==
  /\ Quiescent
  /\ \E c \in Colls :
       \/ \E el \in Args(nameOf(c)) : hasCall(c, el)
       \/ \E cond \in Conds \ {NoCond} : hasWhere(c, cond)
  /\ pc' = pc

CallFindAll ==
  Quiescent /\ (\E c \in Colls, cond \in Conds : findAll(c, cond)) /\ pc' = pc

CallIterate == Quiescent /\ (\E c \in Colls : iterate(c)) /\ pc' = pc

NextCalls ==
  \/ CallInsert
  \/ CallUpdate
  \/ CallRemove
  \/ AwaitedRemoveAll
  \/ CallFind
  \/ CallHas
  \/ CallFindAll
  \/ CallIterate
  \/ TimerFire
  \/ Complete

SpecCalls == InitSeed /\ [][NextCalls]_vars

\* The caller of Spec on init objects whose arrays are in any order.
SeedsAnyOrder ==
  Seeds \cup
  {[n \in {"users"} |-> <<[id |-> 2, name |-> "a"], [id |-> 1, name |-> "a"]>>],
   [n \in Names |-> IF n = "users"
                       THEN <<[id |-> 3, name |-> "a"], [id |-> 1, name |-> "b"]>>
                       ELSE <<[id |-> 1, name |-> "a"]>>]}

InitAnyOrder ==
  /\ \E init \in SeedsAnyOrder, fromFile \in BOOLEAN, d \in Delays, a \in Adapters :
       Connect(init, fromFile, d, a)
  /\ pc = 0

SpecAnyOrder == InitAnyOrder /\ [][Next]_vars

\* Spec with the scheduling of the runtime: a timer that was set fires
\* (setTimeout, line 124) and a write that was started settles.
SpecLive == Spec /\ WF_vars(TimerFire) /\ WF_vars(Complete)

\* The caller of Spec with a DatabaseFile whose writes can fail.
Fail == \E i \in 1 .. Len(saves) : WriteFail(i)

NextFail ==
  \/ Insert
  \/ Update
  \/ Remove
  \/ RemoveAll
  \/ TimerFire
  \/ Complete
  \/ Fail

SpecFail == InitSeed /\ [][NextFail]_vars

\* ---------------------------------------------------------------- loading

\* Values of the root object that are not arrays: null, 0, false, "", a
\* string that is not empty, an object.  The first four are falsy.
NonArrays == {"null", "0", "false", "empty string", "string", "object"}
Falsy == {"null", "0", "false", "empty string"}

\* How DatabaseFile.read answers: database.ts 152-154 returns the text
\* (readFileSync), database-file.ts 26-28 returns a promise of it.
Readers == {"sync", "async"}

\* What a root object has under one name: nothing, an array or another value.
Absent == [kind |-> "absent", items |-> <<>>, tag |-> ""]
Arr(items) == [kind |-> "array", items |-> items, tag |-> ""]
Other(tag) == [kind |-> "other", items |-> <<>>, tag |-> tag]

\* The root object with value ch[n] under each name n: its arrays, and its
\* members that are not arrays.
RootOf(ch) ==
  [arrays |-> [n \in {m \in DOMAIN ch : ch[m].kind = "array"} |-> ch[n].items],
   others |-> [n \in {m \in DOMAIN ch : ch[m].kind = "other"} |-> ch[n].tag]]

\* The init objects a caller passes to connect.
LoadInits ==
  {RootOf([n \in Names |-> IF n = "users" THEN u ELSE q]) :
     u \in {Absent, Arr(<<>>), Arr(<<[id |-> 1, name |-> "a"]>>),
            Arr(<<[id |-> 2, name |-> "a"], [id |-> 1, name |-> "b"]>>)}
          \cup {Other(t) : t \in NonArrays},
     q \in {Absent, Arr(<<[id |-> 1, name |-> "a"]>>), Other("null"),
            Other("object")}}

\* The root objects a database file holds.
FileObjects ==
  {[n \in {} |-> <<>>],
   [n \in {"users"} |-> <<[id |-> 1, name |-> "a"]>>],
   [n \in {"users"} |-> <<[id |-> 2, name |-> "b"], [id |-> 1, name |-> "a"]>>],
   [n \in Names |-> <<[id |-> 1, name |-> "b"]>>]}

\* A file whose text is cut off after its first characters: not JSON.
Truncated == <<<<"{", <<>>>>>>

\* JSON.parse(text) returns an object (it throws a SyntaxError otherwise).
IsJSONObject(text) == \A i \in 1 .. Len(text) : text[i][1] \in Names

\* The database file when connect is called: missing, not JSON, or the
\* text of a root object.
FileContents ==
  {[exists |-> FALSE, text |-> <<>>], [exists |-> TRUE, text |-> Truncated]}
    \cup {[exists |-> TRUE, text |-> Stringify(o)] : o \in FileObjects}

\* connect, lines 97-102: data = JSON.parse(databaseFile.read()), or init
\* when that throws.  A synchronous read throws on a missing file; an
\* asynchronous read returns a promise, and JSON.parse of a promise (the
\* text "[object Promise]") throws a SyntaxError.
Loaded(f, init, rd) ==
  IF rd = "sync" /\ f.exists /\ IsJSONObject(f.text)
    THEN [arrays |-> Parse(f.text), others |-> [n \in {} |-> ""]]
    ELSE init

\* The state when connect has returned and no collection is made yet.  The
\* promise of an asynchronous read of a missing file rejects and nobody
\* holds it.
InitLoad ==
  /\ \E f \in FileContents, init \in LoadInits, rd \in Readers :
       LET root == Loaded(f, init, rd)
       IN  /\ file = f
           /\ reader = rd
           /\ data = [n \in (DOMAIN root.arrays) \cup (DOMAIN root.others) |->
                        IF n \in DOMAIN root.arrays THEN n ELSE root.others[n]]
           /\ heap = [n \in Names |->
                        IF n \in DOMAIN root.arrays THEN root.arrays[n] ELSE <<>>]
           /\ io = [NoIo EXCEPT !.unhandled = IF rd = "async" /\ ~f.exists
                                                THEN 1 ELSE 0]
  /\ elements = [c \in {} |-> ""]
  /\ delay = 0
  /\ adapter = "ordered"
  /\ saves = <<>>
  /\ burst = "none"
  /\ last = NoCall
  /\ pc = 0

\* The factory (database.ts 113-121) and the constructor it calls
\* (collection.ts 81-87), for a collection c not made yet.  A new array gets
\* the id of its name.
Factory(c) ==
  LET name == nameOf(c)
      absent == name \notin DOMAIN data
  IN  /\ c \notin DOMAIN elements
      /\ IF absent \/ data[name] \in Falsy
           THEN /\ data' = [n \in (DOMAIN data) \cup {name} |->
                              IF n = name THEN name ELSE data[n]]
                /\ heap' = [heap EXCEPT ![name] = <<>>]
                /\ elements' = [d \in (DOMAIN elements) \cup {c} |->
                                  IF d = c THEN name ELSE elements[d]]
                /\ last' = Call("factory", TRUE)
           ELSE IF data[name] \in NonArrays
             THEN /\ last' = Throw("factory")
                  /\ UNCHANGED <<data, heap, elements>>
             ELSE /\ heap' = [heap EXCEPT ![data[name]] =
                                ConstructorSort(heap[data[name]], primaryKeyOf(c))]
                  /\ elements' = [d \in (DOMAIN elements) \cup {c} |->
                                    IF d = c THEN data[name] ELSE elements[d]]
                  /\ last' = Call("factory", TRUE)
                  /\ data' = data
      /\ UNCHANGED <<delay, adapter, file, saves, burst, pc, reader, io>>

NextLoad == \E c \in Colls : Factory(c)

SpecLoad == InitLoad /\ [][NextLoad]_vars

\* ------------------------------------------------------------------ claims

KeyStored(c, k) == \E i \in 1 .. Len(Iterate(c)) : Iterate(c)[i].id = k

NoDuplicateKeys ==
  \A c \in Colls : \A i, j \in 1 .. Len(Iterate(c)) :
    i # j => Iterate(c)[i].id # Iterate(c)[j].id

\* C1 (SpecSorted): for a collection that starts empty or from a key-sorted
\* array of distinct keys, after any sequence of insert, update, remove and
\* removeAll the iteration order is the records sorted ascending by key.
C1_Sortedness ==
  \A c \in Colls :
    /\ IsSorted(Iterate(c))
    /\ Iterate(c) = ArraySort(Iterate(c), primaryKeyOf(c))

\* C1 witness: an insert has just put a third record into the users array.
C1_Witness ==
  /\ last.op = "insert"
  /\ last.ret = TRUE
  /\ Len(Iterate("u")) = 3

\* C2 (SpecAwaited): before any call is made, the array of every collection
\* is in ascending key order, whatever the order of the initial array.
C2_ConstructionSorts ==
  last.op = "none" => \A c \in Colls : IsSorted(Iterate(c))

\* C3 (SpecSorted): removeAll(cond) leaves no record that matches cond and
\* returns the number of records that matched before the call.
C3_RemoveAllRemovesEveryMatch ==
  [][\A c \in Colls, cond \in Conds :
       removeAll(c, cond) =>
         /\ \A i \in 1 .. Len(heap'[elementsOf(c)]) :
              ~Matches(cond, heap'[elementsOf(c)][i])
         /\ last'.ret = Cardinality({i \in 1 .. Len(Iterate(c)) :
                                       Matches(cond, Iterate(c)[i])})]_vars

\* C4 (SpecAwaited): insert of a record whose key is stored returns false and
\* changes nothing, and no two stored records ever share a key.
C4_InsertRejectsStoredKey ==
  [][/\ \A c \in Colls : \A el \in Elements(nameOf(c)) :
          (KeyStored(c, el.id) /\ insert(c, el)) =>
             (last'.ret = FALSE /\ heap' = heap)
     /\ NoDuplicateKeys']_vars

\* C5 (SpecFollow): a record whose insert returned true is found by its key
\* for as long as no call removes that key or changes it.
C5_InsertedIsFound ==
  pc # 0 => /\ find("u", [id |-> pc]) # NoEl
            /\ find("u", [id |-> pc]).id = pc

\* C6 (SpecAwaited): remove of a stored key returns true, takes out exactly
\* that record, keeps the order of the others, and the key is then not
\* found; remove of a key that is not stored returns false and changes
\* nothing.
C6_RemoveContract ==
  [][\A c \in Colls : \A el \in KeyOnly(nameOf(c)) :
       remove(c, el) =>
         IF KeyStored(c, el.id)
           THEN /\ last'.ret = TRUE
                /\ heap'[elementsOf(c)] =
                     SelectSeq(Iterate(c), LAMBDA r : r.id # el.id)
                /\ Len(heap'[elementsOf(c)]) = Len(Iterate(c)) - 1
                /\ ~KeyStored(c, el.id)'
           ELSE last'.ret = FALSE /\ heap' = heap]_vars

\* C7 (SpecReadme): on the seed with ids 1, 2, 3, insert({id: 2}) returns
\* false and the size stays 3; then remove({id: 1}) returns true and the
\* ids are 2, 3; then removeAll(r => r.id < 3) returns 1 and the ids are 3.
C7_ReadmeScenario ==
  /\ pc = 1 => /\ last.op = "insert"
               /\ last.ret = FALSE
               /\ Ids(Iterate("u")) = <<1, 2, 3>>
  /\ pc = 2 => /\ last.op = "remove"
               /\ last.ret = TRUE
               /\ Ids(Iterate("u")) = <<2, 3>>
  /\ pc = 3 => /\ last.op = "removeAll"
               /\ last.ret = 1
               /\ Ids(Iterate("u")) = <<3>>

\* C7 witness: the script has run to its end.
C7_Witness ==
  /\ pc = 3
  /\ last.op = "removeAll"
  /\ Ids(Iterate("u")) = <<3>>

\* C8 (SpecSorted): when the saves are started one at a time, each awaited,
\* then once the call's save has finished the file parses to the root
\* object in memory, every collection's array included.
C8_FileIsRoot ==
  (Quiescent /\ burst = "single") =>
     (file.exists /\ FileRoot = Root(data, heap))

\* C8 witness: an awaited update of a users record has been written while
\* the posts collection holds a record too.
C8_Witness ==
  /\ Quiescent
  /\ burst = "single"
  /\ last.op = "update"
  /\ last.ret = TRUE
  /\ Len(Iterate("u")) > 1
  /\ Len(Iterate("p")) > 0

\* C9 as claimed (Spec): whatever the order in which the writes complete,
\* once no save is pending the file is the last save's serialization, the
\* root object in memory.
C9_LastSaveWinsAnyOrder ==
  (Quiescent /\ burst # "none") =>
     (file.exists /\ FileRoot = Root(data, heap))

\* C9 amended (Spec): with an adapter that completes its writes in the
\* order they were started, once no save is pending the file is the last
\* save's serialization, the root object in memory.
C9_LastSaveWinsInOrder ==
  (Quiescent /\ burst # "none" /\ adapter = "ordered") =>
     (file.exists /\ FileRoot = Root(data, heap))

\* C9 witness: two calls were made without awaiting, the second an insert;
\* their saves overlapped and both have finished on an ordered adapter.
C9_Witness ==
  /\ Quiescent
  /\ burst = "overlap"
  /\ adapter = "ordered"
  /\ pc = 2
  /\ last.op = "insert"
  /\ last.ret = TRUE

\* C10 (Spec): mutations made within one delay window end in a single write
\* after the last of them: a save whose delay ends writes the file only if
\* no later save was started while it waited.
C10_Debounced ==
  [][TimerFire => FirstTimer = Len(saves)]_vars

\* Collection.has with a partial record that has the key (213-216).
has(c, el) == find(c, el) # NoEl

\* What two collections show of their records: iteration, find and has.
SameView(c1, c2) ==
  /\ Iterate(c1) = Iterate(c2)
  /\ \A el \in KeyOnly(nameOf(c1)) :
       /\ find(c1, el) = find(c2, el)
       /\ has(c1, el) = has(c2, el)

\* C11 (SpecSorted): in every reachable state two collections made by the
\* same connection for the same name hold the same array, the one the root
\* object has under that name, so that each iterates, finds and has what the
\* other inserted, updated or removed.
C11_SharedBacking ==
  \A c1, c2 \in Colls :
    nameOf(c1) = nameOf(c2) =>
      /\ elementsOf(c1) = elementsOf(c2)
      /\ elementsOf(c2) = data[nameOf(c1)]
      /\ SameView(c1, c2)

\* C11 witness: an insert through one of the two users collections returned
\* true and both of them iterate the same two records.
C11_Witness ==
  /\ last.op = "insert"
  /\ last.ret = TRUE
  /\ Len(Iterate("u")) = 2
  /\ Iterate("u2") = Iterate("u")
  /\ Len(Iterate("p")) = 0

\* C12 (SpecLoad): when connect has returned, a file that exists and holds
\* the text of a JSON object has given the root object, whether the read is
\* synchronous or asynchronous, and no error has come up.
C12_LoadUsesFile ==
  last.op = "none" =>
    /\ (file.exists /\ IsJSONObject(file.text)) =>
          /\ \A n \in DOMAIN data : data[n] \in Names
          /\ Root(data, heap) = FileRoot
    /\ io.unhandled = 0

\* C13 (SpecLoad): a factory call for a name under which the root object
\* has a value that is not an array throws a TypeError, makes no collection
\* and leaves the root object as it was; a call for a name the root object
\* does not have stores an empty array; a call for a name with an array
\* makes the collection and throws nothing.
C13_NonArrayThrows ==
  [][\A c \in Colls :
       Factory(c) =>
         IF nameOf(c) \in DOMAIN data /\ data[nameOf(c)] \in NonArrays
           THEN /\ last'.threw
                /\ c \notin DOMAIN elements'
                /\ data' = data
                /\ heap' = heap
           ELSE /\ ~last'.threw
                /\ c \in DOMAIN elements'
                /\ nameOf(c) \notin DOMAIN data =>
                      heap'[data'[nameOf(c)]] = <<>>]_vars

\* C14 (SpecCalls): find, has, insert, update and remove called with an
\* argument that does not have the key field throw a TypeError, change no
\* array and start no save.
C14_MissingKeyThrows ==
  [][\A c \in Colls : \A el \in KeyLess(nameOf(c)) :
       (\/ findCall(c, el)
        \/ hasCall(c, el)
        \/ insert(c, el)
        \/ update(c, el)
        \/ remove(c, el)) =>
          /\ last'.threw
          /\ heap' = heap
          /\ saves' = saves
          /\ data' = data]_vars

\* C14 witness: an update without the key field has thrown while the users
\* array holds records.
C14_Witness ==
  /\ last.op = "update"
  /\ last.threw
  /\ Len(Iterate("u")) = 2
  /\ Quiescent

\* A step in which a method of a collection was called and did something
\* that shows: it returned something new, changed an array or started a save.
LastChanged ==
  IF last'.op # last.op \/ last'.threw # last.threw
    THEN TRUE
    ELSE last'.ret # last.ret

CallStep == LastChanged \/ heap' # heap \/ Len(saves') > Len(saves)

\* The records in all arrays.
Stored(h) == Len(h["users"]) + Len(h["posts"])

\* C16 (SpecCalls): a call of insert, update or remove that returns true
\* starts one save, removeAll starts one save for each record it removes,
\* and find, findAll, has, iteration and the calls of insert, update and remove
\* that return false (or throw) start no save and leave the arrays and the
\* file as they were.
C16_SaveTriggering ==
  [][CallStep =>
       LET op == last'.op
           added == Len(saves') - Len(saves)
           kept == SubSeq(saves', 1, Len(saves)) = saves
       IN  CASE op \in {"insert", "update", "remove"} ->
                  IF ~last'.threw /\ last'.ret
                    THEN added = 1 /\ kept /\ file' = file
                    ELSE saves' = saves /\ heap' = heap /\ file' = file
             [] op = "removeAll" ->
                  added = Stored(heap) - Stored(heap') /\ kept /\ file' = file
             [] op \in {"find", "findAll", "has", "iterate"} ->
                  saves' = saves /\ heap' = heap /\ file' = file /\ data' = data
             [] OTHER -> FALSE]_vars

\* C16 witness: a removeAll has removed two records and its two saves are
\* pending.
C16_Witness ==
  /\ last.op = "removeAll"
  /\ last.ret = 2
  /\ Len(saves) = 2

\* C15 (SpecFail): when the write of a save fails, the caller of the
\* method that started the save gets the failure (removeAll's removes
\* included), the arrays stay as the method left them and onSaved is not
\* called for that save.
C15_WriteFailureSurfaces ==
  [][\A i \in 1 .. Len(saves) :
       WriteFail(i) =>
         /\ io'.rejected = io.rejected + 1
         /\ io'.unhandled = io.unhandled
         /\ io'.hooks = io.hooks
         /\ heap' = heap]_vars

\* A save leaves the pending saves only when its own write has completed,
\* and onSaved is called then, once.
LeavesByWrite ==
  Len(saves') < Len(saves) =>
    \E i \in 1 .. Len(saves) :
      /\ saves[i].phase = "write"
      /\ saves' = SpliceOut(saves, i - 1)
      /\ file' = [exists |-> TRUE, text |-> saves[i].text]
      /\ io'.hooks = io.hooks + 1

\* onSaved is called, and the file is written, only when a write completes.
HookByWrite ==
  /\ io'.hooks > io.hooks => Len(saves') < Len(saves)
  /\ file' # file => Len(saves') < Len(saves)

\* With a delay, a save starts by waiting, and it starts its write only
\* when the timers set before its own have fired; the saves before and after
\* it stay pending.
WaitsFirst ==
  /\ delay > 0 =>
       \A i \in Len(saves) + 1 .. Len(saves') : saves'[i].phase = "timer"
  /\ \A i \in 1 .. Len(saves) :
       (Len(saves') >= Len(saves) /\ saves[i].phase = "timer"
          /\ saves'[i].phase = "write") =>
            /\ \A j \in 1 .. i - 1 : saves[j].phase = "write"
            /\ Len(saves') = Len(saves)

C18_UpdateContract ==
  [][\A c \in Colls : \A el \in Partials(nameOf(c)) :
       update(c, el) =>
         LET old == Iterate(c)
             new == heap'[elementsOf(c)]
         IN  IF ~KeyStored(c, el.id)
               THEN last'.ret = FALSE /\ heap' = heap
               ELSE /\ last'.ret = TRUE
                    /\ Len(new) = Len(old)
                    /\ \A i \in 1 .. Len(old) :
                         new[i] = IF old[i].id = el.id
                                    THEN ObjectAssign(old[i], el)
                                    ELSE old[i]]_vars

\* What a call returns reflects the array at the moment of the call: insert
\* returns true exactly when the key is not stored, update and remove
\* exactly when it is.
ResultsReflect ==
  \A c \in Colls :
    /\ \A el \in Elements(nameOf(c)) :
         insert(c, el) => last'.ret = ~KeyStored(c, el.id)
    /\ \A el \in Partials(nameOf(c)) :
         update(c, el) => last'.ret = KeyStored(c, el.id)
    /\ \A el \in KeyOnly(nameOf(c)) :
         remove(c, el) => last'.ret = KeyStored(c, el.id)

\* C19 (SpecAnyOrder): for calls issued without awaiting, in any interleaving with
\* the steps of the pending saves, every array is in ascending key order
\* with no key twice in every reachable state, and each call's result
\* reflects the array at the moment of the call.
C19_AtomicMutations ==
  /\ [](\A c \in Colls : IsSorted(Iterate(c)))
  /\ []NoDuplicateKeys
  /\ [][ResultsReflect]_vars

\* Where the binary search of a collection ends for each key.
Located(h, c) ==
  [k \in KeysOf(nameOf(c)) |-> searchIndex(h[elementsOf(c)], [id |-> k], primaryKeyOf(c))]

\* C20 (SpecSorted): with integer keys and the default comparator an update
\* leaves the key of every stored record as it was, the order and the length
\* of every array too, so that each key is located after the update where it
\* was located before.
C20_UpdateKeepsKeys ==
  [][(CallStep /\ last'.op = "update") =>
       /\ \A n \in Names : Ids(heap'[n]) = Ids(heap[n])
       /\ \A c \in Colls : Located(heap', c) = Located(heap, c)]_vars

\* C20 witness: an update was given a full record, key included, and
\* changed the name of the second of three users.
C20_Witness ==
  /\ last.op = "update"
  /\ last.ret = TRUE
  /\ Ids(Iterate("u")) = <<1, 2, 3>>
  /\ Iterate("u")[2].name = "b"
  /\ Iterate("u")[1].name = "a"

====
